---- MODULE Spec2Model ----
(***************************************************************************)
(* The IPAM consistency check of calicoctl ("ipam check"): checkIPAM loads *)
(* the allocation blocks, the IP pools, the nodes and the workload         *)
(* endpoints, builds the allocation index and the in-use index keyed by    *)
(* the canonical address string, and classifies every mismatch.            *)
(*                                                                         *)
(* Go strings that hold address text are sequences of tokens: an address   *)
(* literal, "/" and a prefix length, so that parsing and printing are      *)
(* computed.  Addresses are AddrBits wide.  Of the lines that name one      *)
(* address the model keeps those of the leaked addresses, with their       *)
(* attribute strings; the count lines and the final summary are kept.      *)
(*                                                                         *)
(* The release command ("ipam release") is modelled from the two sources   *)
(* the repository holds for it.                                            *)
(***************************************************************************)
EXTENDS Integers, Sequences, FiniteSets, TLC

\* The size of the datastore: the blocks, pools, nodes and workload endpoints
\* it holds, a record that carries several addresses counting once for each.
MaxItems == 3

----------------------------------------------------------------------------
(* Addresses, CIDRs and their text                                         *)

Addrs == 0..3
AddrBits == CHOOSE n \in 0..Cardinality(Addrs) : 2^n = Cardinality(Addrs)
PrefixLens == 0..AddrBits

NoIP == 0 - 1
Nil == 0 - 1

\* net.IP.String(): the canonical text of an address.
IPString(a) == <<ToString(a)>>

\* The text of a CIDR: address, "/", prefix length.
CIDRText(a, l) == <<ToString(a), "/", ToString(l)>>

Malformed == <<"x">>
Empty == <<>>

\* The network address of a under a prefix of length l.
Mask(a, l) == a - (a % (2^(AddrBits - l)))

\* net.ParseIP: the address a one-token text denotes, or NoIP.
ParseIP(s) ==
    IF Len(s) = 1 /\ \E a \in Addrs : ToString(a) = s[1]
    THEN CHOOSE a \in Addrs : ToString(a) = s[1]
    ELSE NoIP

\* cnet.ParseCIDR: the host address and the masked network of a CIDR text.
ParseCIDR(s) ==
    IF /\ Len(s) = 3
       /\ s[2] = "/"
       /\ ParseIP(<<s[1]>>) # NoIP
       /\ \E l \in PrefixLens : ToString(l) = s[3]
    THEN LET a == ParseIP(<<s[1]>>)
             l == CHOOSE l \in PrefixLens : ToString(l) = s[3]
         IN  [ok |-> TRUE, ip |-> a, net |-> [base |-> Mask(a, l), len |-> l]]
    ELSE [ok |-> FALSE, ip |-> NoIP, net |-> [base |-> 0, len |-> 0]]

\* cnet.ParseCIDROrIP: a CIDR first, a bare address second.
ParseCIDROrIP(s) ==
    IF ParseCIDR(s).ok THEN ParseCIDR(s)
    ELSE IF ParseIP(s) # NoIP
         THEN [ok |-> TRUE, ip |-> ParseIP(s),
               net |-> [base |-> ParseIP(s), len |-> AddrBits]]
         ELSE [ok |-> FALSE, ip |-> NoIP, net |-> [base |-> 0, len |-> 0]]

\* normaliseIP with the network address in place of the host address.
normaliseIPMasked(addr) ==
    LET r == ParseCIDROrIP(addr)
    IN  IF r.ok THEN [ok |-> TRUE, ip |-> IPString(r.net.base)]
        ELSE [ok |-> FALSE, ip |-> Empty]

normaliseIP(addr) ==
    LET r == ParseCIDROrIP(addr)
    IN  IF r.ok THEN [ok |-> TRUE, ip |-> IPString(r.ip)]
        ELSE [ok |-> FALSE, ip |-> Empty]

\* IPNet.Contains
Contains(cidr, a) == a # NoIP /\ Mask(a, cidr.len) = cidr.base

----------------------------------------------------------------------------
(* The datastore: what the four listings return                            *)

\* ipam.WindowsReservedHandle
WindowsReservedHandle == "windows-reserved-ipam-handle"
PodHandle == "k8s-pod-network.pod"

\* model.AllocationAttribute; AttrPrimary is <<>> (nil) or <<handle>>, and
\* AttrSecondary is a Go map from key to value.
NormalAttr ==
    [AttrPrimary |-> <<PodHandle>>,
     AttrSecondary |-> ("pod" :> "web") @@ ("namespace" :> "default")]
NoPrimaryAttr ==
    [AttrPrimary |-> <<>>, AttrSecondary |-> ("node" :> "node1")]
ReservedAttr ==
    [AttrPrimary |-> <<WindowsReservedHandle>>, AttrSecondary |-> [k \in {} |-> ""]]
AttrTables == {<<NormalAttr>>, <<NoPrimaryAttr, ReservedAttr>>}

\* Block CIDRs are disjoint and of one size, as the allocator carves them.
BlockCIDRs == {[base |-> 0, len |-> AddrBits - 1]}
BlockSize(cidr) == 2^(AddrBits - cidr.len)

\* An allocation marker is Nil or an int that indexes the attribute table
\* from 0.  The block is taken as the datastore holds it: the int may lie past
\* the end of the table or below 0.
AllocMarks == {Nil, 0 - 2, 0, 1}

\* model.AllocationBlock
BlockSet ==
    UNION {[CIDR : {cidr},
            Allocations : [1..BlockSize(cidr) -> AllocMarks],
            Attributes : AttrTables] : cidr \in BlockCIDRs}

\* The text a workload endpoint may carry as an address: bare or as a CIDR.
RawAddrs == {IPString(1), IPString(2), CIDRText(1, 1), Malformed}

\* The text a node may carry as a tunnel address.
NodeAddrs == {IPString(1), IPString(2), Malformed}

\* The text an IP pool may carry as its CIDR.
PoolCIDRs == {CIDRText(0, 1), CIDRText(0, 0), Malformed}

\* apiv3.IPPool
PoolSet == [CIDR : PoolCIDRs, Disabled : BOOLEAN]

NodeName(i) == "node" \o ToString(i)
WepName(i) == "wep" \o ToString(i)

\* apiv3.Node.  Wireguard is <<>> (nil) or a one-element sequence holding an
\* address; BGP is always present and its tunnel address may be empty.
NodeSet ==
    [Name : {""},
     IPv4VXLANTunnelAddr : NodeAddrs \cup {Empty},
     Wireguard : {<<>>} \cup {<<[InterfaceIPv4Address |-> s]>> : s \in NodeAddrs},
     BGP : {<<[IPv4IPIPTunnelAddr |-> s]>> : s \in NodeAddrs \cup {Empty}}]

\* apiv3.WorkloadEndpoint, with k addresses at most.
WepsUpTo(k) ==
    [Namespace : {"default"},
     Name : {""},
     IPNetworks : UNION {[1..n -> RawAddrs] : n \in 0..k}]
WepSet == WepsUpTo(MaxItems)

\* The size of a record: one, or the number of addresses it carries.
Max(a, b) == IF a >= b THEN a ELSE b
BlockItems(b) ==
    Max(1, Cardinality({i \in DOMAIN b.Allocations : b.Allocations[i] # Nil}))
PoolItems(p) == 1
NodeItems(n) ==
    Max(1, (IF n.IPv4VXLANTunnelAddr # Empty THEN 1 ELSE 0)
           + (IF n.Wireguard # <<>> THEN 1 ELSE 0)
           + (IF n.BGP[1].IPv4IPIPTunnelAddr # Empty THEN 1 ELSE 0))
WepItems(w) == Max(1, Len(w.IPNetworks))

Range(s) == {s[i] : i \in DOMAIN s}

RECURSIVE SumSeq(_)
SumSeq(s) == IF s = <<>> THEN 0 ELSE Head(s) + SumSeq(Tail(s))

----------------------------------------------------------------------------
(* The release command: its arguments, the report files, the cluster       *)

\* An empty Go map.
EmptyMap == [k \in {} |-> <<>>]

\* The two sources the release command is built from.
Builds == {"release.go", "part_001"}

\* The name the older source reads whatever <REPORT> is.
ReportJSON == "report.json"
Paths == {ReportJSON, "leaked.json"}

ClusterGUID == "guid-a"
ResourceVersion == "rev-7"
Version == "v3.17"

\* One address of a report: its text and whether the check saw it in use.
ReportEntry(a, inUse) == [IP |-> IPString(a), InUse |-> inUse]

\* Report.Allocations: a Go map from a node's name to its addresses.
ReportAllocations ==
    { EmptyMap,
      ("node1" :> <<ReportEntry(1, TRUE), ReportEntry(2, FALSE)>>),
      ("node1" :> <<ReportEntry(1, FALSE)>>) @@ ("node2" :> <<ReportEntry(2, FALSE)>>) }

\* Report, as releaseFromReport reads it.
ReportSet ==
    [ClusterGUID : {ClusterGUID, "guid-b"},
     ClusterInfoRevision : {ResourceVersion, "rev-6"},
     Version : {Version, "v3.16"},
     Allocations : ReportAllocations]

\* Report{}: the zero value json.Unmarshal fills.
ZeroReport ==
    [ClusterGUID |-> "", ClusterInfoRevision |-> "", Version |-> "",
     Allocations |-> EmptyMap]

\* What a path holds: no file, bytes that are not JSON, or a report.
NoFile == [exists |-> FALSE, json |-> FALSE, report |-> ZeroReport]
NotJSON == [exists |-> TRUE, json |-> FALSE, report |-> ZeroReport]
ReportFile(r) == [exists |-> TRUE, json |-> TRUE, report |-> r]
FileSet == {NoFile, NotJSON} \cup {ReportFile(r) : r \in ReportSet}

\* The parsed arguments: an option that is not given is <<>>.
ArgSet ==
    [ip : {<<>>, <<IPString(1)>>},
     fromReport : {<<>>} \cup {<<p>> : p \in Paths},
     force : BOOLEAN]
NoArgs == [ip |-> <<>>, fromReport |-> <<>>, force |-> FALSE]

\* ClusterInformation; DatastoreReady is <<>> (nil) or <<b>>.
ClusterInfoSet ==
    [ClusterGUID : {ClusterGUID},
     ResourceVersion : {ResourceVersion},
     DatastoreReady : {<<>>, <<TRUE>>, <<FALSE>>}]

----------------------------------------------------------------------------
(* The state                                                               *)

VARIABLES
    blocks, pools, nodes, weps,     \* the datastore
    pc,                             \* the position of checkIPAM
    allocations, inUseIPs,          \* IPAMChecker's indexes
    activeIPPools,
    allocatedButNotInUseIPs, nonCalicoIPs, inUseButNotAllocatedIPs,
    numProblems,
    err,                            \* the error checkIPAM returns
    out,                            \* the count lines printed so far
    failedList,                     \* the listing call that returned an error
    calls,                          \* the datastore calls checkIPAM has issued
    previous,                       \* what the run before this one reported
    build,                          \* the source file the release command is built from
    args, version,                  \* the arguments of the release command
    files,                          \* the report files on disk
    clusterInfo,                    \* the ClusterInformation named "default"
    assigned,                       \* the addresses IPAM holds as assigned
    rpc,                            \* the position of Release
    rerr,                           \* the error Release returns
    released,                       \* the ReleaseIPs calls issued, in order
    loaded,                         \* the report releaseFromReport has in memory
    rout                            \* the lines Release has printed

datastore == <<blocks, pools, nodes, weps>>
vars == <<blocks, pools, nodes, weps, pc, allocations, inUseIPs, activeIPPools,
          allocatedButNotInUseIPs, nonCalicoIPs, inUseButNotAllocatedIPs,
          numProblems, err, out, failedList, calls, previous, build, args,
          version, files, clusterInfo, assigned, rpc, rerr, released, loaded, rout>>

\* The state of the release command.
release == <<build, args, version, files, clusterInfo, assigned, rpc, rerr,
             released, loaded, rout>>

NoError == [msg |-> "", raw |-> Empty, owner |-> ""]

DatastoreSize ==
    SumSeq([i \in DOMAIN blocks |-> BlockItems(blocks[i])])
    + SumSeq([i \in DOMAIN pools |-> PoolItems(pools[i])])
    + SumSeq([i \in DOMAIN nodes |-> NodeItems(nodes[i])])
    + SumSeq([i \in DOMAIN weps |-> WepItems(weps[i])])

checker == <<allocations, inUseIPs, activeIPPools, allocatedButNotInUseIPs,
             nonCalicoIPs, inUseButNotAllocatedIPs, numProblems, err, out,
             failedList>>

\* No release command has been given.
ReleaseIdle ==
    /\ build = "release.go"
    /\ args = NoArgs
    /\ version = Version
    /\ files = [p \in Paths |-> NoFile]
    /\ clusterInfo = [ClusterGUID |-> ClusterGUID, ResourceVersion |-> ResourceVersion,
                      DatastoreReady |-> <<>>]
    /\ assigned = {}
    /\ rpc = "idle"
    /\ rerr = ""
    /\ released = <<>>
    /\ loaded = ZeroReport
    /\ rout = <<>>

\* An empty datastore; no check has been started.
CheckIdle ==
    /\ calls = <<>>
    /\ previous = <<>>
    /\ blocks = <<>>
    /\ pools = <<>>
    /\ nodes = <<>>
    /\ weps = <<>>
    /\ pc = "idle"
    /\ allocations = EmptyMap
    /\ inUseIPs = EmptyMap
    /\ activeIPPools = <<>>
    /\ allocatedButNotInUseIPs = <<>>
    /\ nonCalicoIPs = <<>>
    /\ inUseButNotAllocatedIPs = <<>>
    /\ numProblems = 0
    /\ err = NoError
    /\ out = <<>>
    /\ failedList = ""

Init == CheckIdle /\ ReleaseIdle

----------------------------------------------------------------------------
(* The cluster writes the datastore before the check runs                  *)

\* An allocation block appears; a block is keyed by its CIDR.
CreateBlock ==
    /\ pc = "idle"
    /\ DatastoreSize < MaxItems
    /\ \E room \in {MaxItems - DatastoreSize} : \E b \in BlockSet :
          /\ \A i \in DOMAIN blocks : blocks[i].CIDR # b.CIDR
          /\ BlockItems(b) <= room
          /\ blocks' = Append(blocks, b)
    /\ UNCHANGED <<pools, nodes, weps, pc, checker, calls, previous, release>>

CreatePool ==
    /\ pc = "idle"
    /\ DatastoreSize < MaxItems
    /\ \E room \in {MaxItems - DatastoreSize} : \E p \in PoolSet :
          /\ PoolItems(p) <= room
          /\ pools' = Append(pools, p)
    /\ UNCHANGED <<blocks, nodes, weps, pc, checker, calls, previous, release>>

CreateNode ==
    /\ pc = "idle"
    /\ DatastoreSize < MaxItems
    /\ \E room \in {MaxItems - DatastoreSize} : \E n \in NodeSet :
          /\ NodeItems(n) <= room
          /\ nodes' = Append(nodes, [n EXCEPT !.Name = NodeName(Len(nodes) + 1)])
    /\ UNCHANGED <<blocks, pools, weps, pc, checker, calls, previous, release>>

CreateWep ==
    /\ pc = "idle"
    /\ DatastoreSize < MaxItems
    /\ \E room \in {MaxItems - DatastoreSize} : \E w \in WepsUpTo(room) :
          /\ WepItems(w) <= room
          /\ weps' = Append(weps, [w EXCEPT !.Name = WepName(Len(weps) + 1)])
    /\ UNCHANGED <<blocks, pools, nodes, pc, checker, calls, previous, release>>

----------------------------------------------------------------------------
(* Classification                                                          *)

\* The orders in which a range over a Go map may visit its keys.
Orders(S) ==
    {f \in [1..Cardinality(S) -> S] : \A i, j \in DOMAIN f : i # j => f[i] # f[j]}

\* The leaked test that forgets the in-use index.
leakedStepIgnoringUse(inUse, acc, ip) == Append(acc, ip)

\* The body of the range over c.allocations: a key that is not in use is leaked.
leakedStep(inUse, acc, ip) ==
    IF ip \notin DOMAIN inUse THEN Append(acc, ip) ELSE acc

RECURSIVE scanAllocations(_, _, _)
scanAllocations(inUse, order, acc) ==
    IF order = <<>> THEN acc
    ELSE scanAllocations(inUse, Tail(order), leakedStep(inUse, acc, Head(order)))

\* The inner loop over activeIPPools that stops after the first pool.
InActivePoolFirstOnly(active, ip) ==
    active # <<>> /\ Contains(active[1], ParseIP(ip))

\* The inner loop over activeIPPools.
InActivePool(active, ip) ==
    \E i \in DOMAIN active : Contains(active[i], ParseIP(ip))

RECURSIVE AppendTimes(_, _, _)
AppendTimes(list, x, n) ==
    IF n = 0 THEN list ELSE AppendTimes(Append(list, x), x, n - 1)

\* The body of the range over c.inUseIPs that appends once for each owner.
inUseStepPerOwner(allocs, inUse, active, acc, ip) ==
    IF ip \in DOMAIN allocs THEN acc
    ELSE IF ~InActivePool(active, ip)
         THEN [acc EXCEPT !.nonCalico = AppendTimes(@, ip, Len(inUse[ip]))]
         ELSE [acc EXCEPT !.notAllocated = AppendTimes(@, ip, Len(inUse[ip]))]

\* The body of the range over c.inUseIPs that takes every pool hit for a miss.
inUseStepSwapped(allocs, inUse, active, acc, ip) ==
    IF ip \in DOMAIN allocs THEN acc
    ELSE IF InActivePool(active, ip)
         THEN [acc EXCEPT !.nonCalico = Append(@, ip)]
         ELSE [acc EXCEPT !.notAllocated = Append(@, ip)]

\* The body of the range over c.inUseIPs that files an address outside the
\* active pools under both lists.
inUseStepFallThrough(allocs, inUse, active, acc, ip) ==
    IF ip \in DOMAIN allocs THEN acc
    ELSE IF ~InActivePool(active, ip)
         THEN [nonCalico |-> Append(acc.nonCalico, ip),
               notAllocated |-> Append(acc.notAllocated, ip)]
         ELSE [acc EXCEPT !.notAllocated = Append(@, ip)]

\* The body of the range over c.inUseIPs, on acc = [nonCalico, notAllocated].
inUseStep(allocs, inUse, active, acc, ip) ==
    IF ip \in DOMAIN allocs THEN acc
    ELSE IF ~InActivePool(active, ip)
         THEN [acc EXCEPT !.nonCalico = Append(@, ip)]
         ELSE [acc EXCEPT !.notAllocated = Append(@, ip)]

RECURSIVE scanInUse(_, _, _, _, _)
scanInUse(allocs, inUse, active, order, acc) ==
    IF order = <<>> THEN acc
    ELSE scanInUse(allocs, inUse, active, Tail(order),
                   inUseStep(allocs, inUse, active, acc, Head(order)))

----------------------------------------------------------------------------
(* checkIPAM                                                               *)

\* The check is run with --show-problem-ips and without --show-all-ips.
showAllIPs == FALSE
showProblemIPs == showAllIPs \/ TRUE

ListingError(msg) == [msg |-> msg, raw |-> Empty, owner |-> ""]

\* Check: NewIPAMChecker makes the empty indexes and checkIPAM starts.
Check ==
    /\ pc = "idle"
    /\ pc' = "listBlocks"
    /\ calls' = <<>>
    /\ allocations' = EmptyMap
    /\ inUseIPs' = EmptyMap
    /\ UNCHANGED <<datastore, previous, release, activeIPPools, allocatedButNotInUseIPs, nonCalicoIPs,
                   inUseButNotAllocatedIPs, numProblems, err, out, failedList>>

----------------------------------------------------------------------------
(* The indexes                                                             *)

\* c.m[k] = append(c.m[k], v) on a Go map of slices.
MapAppend(m, k, v) ==
    IF k \in DOMAIN m THEN [m EXCEPT ![k] = Append(@, v)]
    ELSE m @@ (k :> <<v>>)

\* recordInUseIP, on the in-use index.
recordInUseIP(inUse, ip, referrer, friendlyName) ==
    MapAppend(inUse, ip, [FriendlyName |-> friendlyName, Resource |-> referrer])

\* AllocationBlock.OrdinalToIP
OrdinalToIP(b, ord) == b.CIDR.base + ord

\* recordAllocation that does not register a reserved address as in use.
recordAllocationNoReserve(c, b, ord) ==
    LET ip == IPString(OrdinalToIP(b, ord))
        alloc == [Block |-> b.CIDR, Ordinal |-> ord]
    IN  [c EXCEPT !.allocations = MapAppend(c.allocations, ip, alloc)]

\* recordAllocation, on c = [allocations, inUseIPs, panicked].  The index is
\* compared with the length of the table only: b.Attributes[attrIdx] with a
\* negative attrIdx is a run-time panic, after the allocation is recorded.
recordAllocation(c, b, ord) ==
    LET ip == IPString(OrdinalToIP(b, ord))
        alloc == [Block |-> b.CIDR, Ordinal |-> ord]
        attrIdx == b.Allocations[ord + 1]
        inTable == Len(b.Attributes) > attrIdx
        reserved ==
            /\ inTable
            /\ attrIdx >= 0
            /\ b.Attributes[attrIdx + 1].AttrPrimary # <<>>
            /\ b.Attributes[attrIdx + 1].AttrPrimary[1] = WindowsReservedHandle
    IN  [allocations |-> MapAppend(c.allocations, ip, alloc),
         inUseIPs |-> IF reserved
                      THEN recordInUseIP(c.inUseIPs, ip, <<"Block", b.CIDR>>,
                                         "Reserved for Windows")
                      ELSE c.inUseIPs,
         panicked |-> inTable /\ attrIdx < 0]

\* The keys of the secondary attributes, in the order of sort.Strings.
SortedKeys == <<"namespace", "node", "pod">>
AttrKeys == Range(SortedKeys)
StringLess(a, b) ==
    \E i, j \in DOMAIN SortedKeys : i < j /\ SortedKeys[i] = a /\ SortedKeys[j] = b

\* The keys of the secondary attributes the listed blocks carry.
AttrKeysOf(bs) ==
    UNION {UNION {DOMAIN bs[i].Attributes[j].AttrSecondary :
                     j \in DOMAIN bs[i].Attributes} : i \in DOMAIN bs}

\* sort.Strings
RECURSIVE Insert(_, _)
Insert(sorted, k) ==
    IF sorted = <<>> THEN <<k>>
    ELSE IF StringLess(k, Head(sorted)) THEN <<k>> \o sorted
    ELSE <<Head(sorted)>> \o Insert(Tail(sorted), k)
RECURSIVE SortStrings(_)
SortStrings(keys) ==
    IF keys = <<>> THEN <<>>
    ELSE Insert(SortStrings(Tail(keys)), Head(keys))

\* strings.Join
RECURSIVE Join(_, _)
Join(strs, sep) ==
    IF strs = <<>> THEN ""
    ELSE IF Len(strs) = 1 THEN strs[1]
    ELSE strs[1] \o sep \o Join(Tail(strs), sep)

\* formatAttrs that prints the keys in the order the map yields them.
formatAttrsUnsorted(attribute, range) ==
    LET primary == IF attribute.AttrPrimary # <<>> THEN attribute.AttrPrimary[1]
                   ELSE "<none>"
        keys == SelectSeq(range, LAMBDA k : k \in DOMAIN attribute.AttrSecondary)
        kvs == [i \in DOMAIN keys |-> keys[i] \o "=" \o attribute.AttrSecondary[keys[i]]]
    IN  "Main:" \o primary \o " Extra:" \o Join(kvs, ",")

\* formatAttrs; range is the order in which the Go map yields its keys.
formatAttrs(attribute, range) ==
    LET primary == IF attribute.AttrPrimary # <<>> THEN attribute.AttrPrimary[1]
                   ELSE "<none>"
        keys == SelectSeq(range, LAMBDA k : k \in DOMAIN attribute.AttrSecondary)
        sorted == SortStrings(keys)
        kvs == [i \in DOMAIN sorted |->
                   sorted[i] \o "=" \o attribute.AttrSecondary[sorted[i]]]
    IN  "Main:" \o primary \o " Extra:" \o Join(kvs, ",")

\* What the program prints when it panics.
Panic == "panic: runtime error: index out of range"

\* allocation.GetAttrString; a.Block points to the block with that CIDR.
GetAttrString(bs, a, range) ==
    LET b == bs[CHOOSE i \in DOMAIN bs : bs[i].CIDR = a.Block]
        attrIdx == b.Allocations[a.Ordinal + 1]
    IN  IF Len(b.Attributes) > attrIdx
        THEN IF attrIdx < 0 THEN Panic
             ELSE formatAttrs(b.Attributes[attrIdx + 1], range)
        ELSE "<missing>"

\* The lines "<ip> leaked; attrs <attrs>" of the leaked addresses, one for
\* each allocation of each address, in the order the addresses were found.
RECURSIVE leakedLines(_, _, _, _)
leakedLines(bs, allocs, leaked, range) ==
    IF leaked = <<>> THEN <<>>
    ELSE [i \in DOMAIN allocs[Head(leaked)] |->
             <<"leaked", Head(leaked), GetAttrString(bs, allocs[Head(leaked)][i], range)>>]
         \o leakedLines(bs, allocs, Tail(leaked), range)

\* The loop over the ordinals of one block, from ordinal ord on.
RECURSIVE LoadBlock(_, _, _)
LoadBlock(c, b, ord) ==
    IF ord >= Len(b.Allocations) \/ c.panicked THEN c
    ELSE LoadBlock(IF b.Allocations[ord + 1] = Nil THEN c
                   ELSE recordAllocation(c, b, ord),
                   b, ord + 1)

\* The loop over the listed blocks.
RECURSIVE LoadBlocks(_, _)
LoadBlocks(c, bs) ==
    IF bs = <<>> \/ c.panicked THEN c
    ELSE LoadBlocks(LoadBlock(c, Head(bs), 0), Tail(bs))

\* The loop over the listed pools that does not skip the disabled ones.
RECURSIVE LoadPoolsKeepDisabled(_, _)
LoadPoolsKeepDisabled(active, ps) ==
    IF ps = <<>> THEN [ok |-> TRUE, active |-> active]
    ELSE IF ~ParseCIDR(Head(ps).CIDR).ok THEN [ok |-> FALSE, active |-> active]
    ELSE LoadPoolsKeepDisabled(Append(active, ParseCIDR(Head(ps).CIDR).net), Tail(ps))

\* The loop over the listed pools: the active CIDRs, or the parse error.
RECURSIVE LoadPools(_, _)
LoadPools(active, ps) ==
    IF ps = <<>> THEN [ok |-> TRUE, active |-> active]
    ELSE IF Head(ps).Disabled THEN LoadPools(active, Tail(ps))
    ELSE IF ~ParseCIDR(Head(ps).CIDR).ok THEN [ok |-> FALSE, active |-> active]
    ELSE LoadPools(Append(active, ParseCIDR(Head(ps).CIDR).net), Tail(ps))

ParseError(msg, raw, owner) == [msg |-> msg, raw |-> raw, owner |-> owner]

\* getNodeIPs that drops an address it cannot parse.
getNodeIPsLenient(n) ==
    LET texts == <<n.IPv4VXLANTunnelAddr>>
                 \o [i \in DOMAIN n.Wireguard |-> n.Wireguard[i].InterfaceIPv4Address]
                 \o [i \in DOMAIN n.BGP |-> n.BGP[i].IPv4IPIPTunnelAddr]
        good == SelectSeq(texts, LAMBDA t : t # Empty /\ normaliseIP(t).ok)
    IN  [ips |-> [i \in DOMAIN good |-> normaliseIP(good[i]).ip], err |-> NoError]

\* getNodeIPs
getNodeIPs(n) ==
    LET vx == n.IPv4VXLANTunnelAddr
        hasVx == vx # Empty
        hasWg == n.Wireguard # <<>> /\ n.Wireguard[1].InterfaceIPv4Address # Empty
        wg == n.Wireguard[1].InterfaceIPv4Address
        hasIpip == n.BGP # <<>> /\ n.BGP[1].IPv4IPIPTunnelAddr # Empty
        ipip == n.BGP[1].IPv4IPIPTunnelAddr
        ips1 == IF hasVx THEN <<normaliseIP(vx).ip>> ELSE <<>>
        ips2 == IF hasWg THEN Append(ips1, normaliseIP(wg).ip) ELSE ips1
        ips3 == IF hasIpip THEN Append(ips2, normaliseIP(ipip).ip) ELSE ips2
    IN  IF hasVx /\ ~normaliseIP(vx).ok
        THEN [ips |-> <<>>,
              err |-> ParseError("failed to parse IPv4VXLANTunnelAddr", vx, n.Name)]
        ELSE IF hasWg /\ ~normaliseIP(wg).ok
        THEN [ips |-> <<>>,
              err |-> ParseError("failed to parse Wireguard.InterfaceIPv4Address",
                                 wg, n.Name)]
        ELSE IF hasIpip /\ ~normaliseIP(ipip).ok
        THEN [ips |-> <<>>,
              err |-> ParseError("failed to parse IPv4IPIPTunnelAddr", ipip, n.Name)]
        ELSE [ips |-> ips3, err |-> NoError]

WepOwner(w) == w.Namespace \o "/" \o w.Name

\* getWEPIPs, from address i of the endpoint on.
RECURSIVE getWEPIPsFrom(_, _, _)
getWEPIPsFrom(w, i, ips) ==
    IF i > Len(w.IPNetworks) THEN [ips |-> ips, err |-> NoError]
    ELSE IF ~normaliseIP(w.IPNetworks[i]).ok
    THEN [ips |-> <<>>,
          err |-> ParseError("failed to parse IP", w.IPNetworks[i], WepOwner(w))]
    ELSE getWEPIPsFrom(w, i + 1, Append(ips, normaliseIP(w.IPNetworks[i]).ip))

getWEPIPs(w) == getWEPIPsFrom(w, 1, <<>>)

\* The inner loop: every address of one resource is recorded as in use.
RECURSIVE RecordAll(_, _, _, _)
RecordAll(inUse, ips, referrer, friendlyName) ==
    IF ips = <<>> THEN inUse
    ELSE RecordAll(recordInUseIP(inUse, Head(ips), referrer, friendlyName),
                   Tail(ips), referrer, friendlyName)

\* The loop over the listed nodes that skips a node it cannot parse and goes
\* on, returning the last parse error at the end.
RECURSIVE LoadNodesKeepGoing(_, _, _)
LoadNodesKeepGoing(inUse, ns, num) ==
    IF ns = <<>> THEN [inUseIPs |-> inUse, num |-> num, err |-> NoError]
    ELSE LET n == Head(ns)
             r == getNodeIPs(n)
             rest == LoadNodesKeepGoing(
                         IF r.err # NoError THEN inUse
                         ELSE RecordAll(inUse, r.ips, <<"Node", n.Name>>,
                                        "Node(" \o n.Name \o ")"),
                         Tail(ns), num + Len(r.ips))
         IN  IF r.err # NoError /\ rest.err = NoError
             THEN [rest EXCEPT !.err = r.err]
             ELSE rest

\* The loop over the listed nodes: it returns at the first parse error.
RECURSIVE LoadNodes(_, _, _)
LoadNodes(inUse, ns, num) ==
    IF ns = <<>> THEN [inUseIPs |-> inUse, num |-> num, err |-> NoError]
    ELSE LET n == Head(ns)
             r == getNodeIPs(n)
         IN  IF r.err # NoError
             THEN [inUseIPs |-> inUse, num |-> num, err |-> r.err]
             ELSE LoadNodes(RecordAll(inUse, r.ips, <<"Node", n.Name>>,
                                      "Node(" \o n.Name \o ")"),
                            Tail(ns), num + Len(r.ips))

\* The loop over the listed workload endpoints.
RECURSIVE LoadWeps(_, _, _)
LoadWeps(inUse, ws, num) ==
    IF ws = <<>> THEN [inUseIPs |-> inUse, num |-> num, err |-> NoError]
    ELSE LET w == Head(ws)
             r == getWEPIPs(w)
         IN  IF r.err # NoError
             THEN [inUseIPs |-> inUse, num |-> num, err |-> r.err]
             ELSE LoadWeps(RecordAll(inUse, r.ips, <<"Workload", WepOwner(w)>>,
                                     "Workload(" \o WepOwner(w) \o ")"),
                           Tail(ws), num + Len(r.ips))

\* The block listing succeeds: every allocated ordinal is recorded.
ListBlocks ==
    /\ pc = "listBlocks"
    /\ calls' = Append(calls, "blocks")
    /\ LET c == LoadBlocks([allocations |-> allocations, inUseIPs |-> inUseIPs,
                            panicked |-> FALSE], blocks)
       IN  /\ allocations' = c.allocations
           /\ inUseIPs' = c.inUseIPs
           /\ IF c.panicked
              THEN /\ out' = Append(out, <<"Found IPAM blocks", Len(blocks)>>)
                   /\ pc' = "panicked"
              ELSE /\ out' = out \o <<<<"Found IPAM blocks", Len(blocks)>>,
                                      <<"IPAM blocks record allocations",
                                        Cardinality(DOMAIN c.allocations)>>>>
                   /\ pc' = "listPools"
    /\ UNCHANGED <<datastore, previous, release, activeIPPools, allocatedButNotInUseIPs, nonCalicoIPs,
                   inUseButNotAllocatedIPs, numProblems, err, failedList>>

ListBlocksFails ==
    /\ pc = "listBlocks"
    /\ calls' = Append(calls, "blocks")
    /\ failedList' = "blocks"
    /\ pc' = "returned"
    /\ err' = ListingError("failed to list IPAM blocks")
    /\ UNCHANGED <<datastore, previous, release, allocations, inUseIPs, activeIPPools,
                   allocatedButNotInUseIPs, nonCalicoIPs, inUseButNotAllocatedIPs,
                   numProblems, out>>

\* The pool listing that is issued only after the nodes have been listed.
ListPoolsAfterNodes ==
    /\ pc = "listPools"
    /\ calls' = calls \o <<"nodes", "pools">>
    /\ LET r == LoadPools(<<>>, pools)
       IN  /\ activeIPPools' = r.active
           /\ IF r.ok
              THEN /\ out' = Append(out, <<"Found active IP pools", Len(r.active)>>)
                   /\ pc' = "listWeps"
                   /\ err' = err
              ELSE /\ out' = out
                   /\ pc' = "returned"
                   /\ err' = ListingError("failed to parse IP pool CIDR")
    /\ UNCHANGED <<datastore, previous, release, allocations, inUseIPs,
                   allocatedButNotInUseIPs, nonCalicoIPs, inUseButNotAllocatedIPs,
                   numProblems, failedList>>

\* The pool listing succeeds: the enabled pools are parsed, in order.
ListPools ==
    /\ pc = "listPools"
    /\ calls' = Append(calls, "pools")
    /\ LET r == LoadPools(<<>>, pools)
       IN  /\ activeIPPools' = r.active
           /\ IF r.ok
              THEN /\ out' = Append(out, <<"Found active IP pools", Len(r.active)>>)
                   /\ pc' = "listNodes"
                   /\ err' = err
              ELSE /\ out' = out
                   /\ pc' = "returned"
                   /\ err' = ListingError("failed to parse IP pool CIDR")
    /\ UNCHANGED <<datastore, previous, release, allocations, inUseIPs, allocatedButNotInUseIPs,
                   nonCalicoIPs, inUseButNotAllocatedIPs, numProblems, failedList>>

ListPoolsFails ==
    /\ pc = "listPools"
    /\ calls' = Append(calls, "pools")
    /\ failedList' = "pools"
    /\ pc' = "returned"
    /\ err' = ListingError("failed to load IP pools")
    /\ UNCHANGED <<datastore, previous, release, allocations, inUseIPs, activeIPPools,
                   allocatedButNotInUseIPs, nonCalicoIPs, inUseButNotAllocatedIPs,
                   numProblems, out>>

\* The node listing succeeds: the tunnel addresses are recorded as in use.
ListNodes ==
    /\ pc = "listNodes"
    /\ calls' = Append(calls, "nodes")
    /\ LET r == LoadNodes(inUseIPs, nodes, 0)
       IN  /\ inUseIPs' = r.inUseIPs
           /\ err' = r.err
           /\ IF r.err = NoError
              THEN /\ out' = Append(out, <<"Found node tunnel IPs", r.num>>)
                   /\ pc' = "listWeps"
              ELSE /\ out' = out
                   /\ pc' = "returned"
    /\ UNCHANGED <<datastore, previous, release, allocations, activeIPPools, allocatedButNotInUseIPs,
                   nonCalicoIPs, inUseButNotAllocatedIPs, numProblems, failedList>>

\* The node listing fails and the error is dropped.
ListNodesFailsIgnored ==
    /\ pc = "listNodes"
    /\ calls' = Append(calls, "nodes")
    /\ failedList' = "nodes"
    /\ pc' = "listWeps"
    /\ UNCHANGED <<datastore, previous, release, allocations, inUseIPs, activeIPPools,
                   allocatedButNotInUseIPs, nonCalicoIPs, inUseButNotAllocatedIPs,
                   numProblems, err, out>>

ListNodesFails ==
    /\ pc = "listNodes"
    /\ calls' = Append(calls, "nodes")
    /\ failedList' = "nodes"
    /\ pc' = "returned"
    /\ err' = ListingError("failed to list nodes")
    /\ UNCHANGED <<datastore, previous, release, allocations, inUseIPs, activeIPPools,
                   allocatedButNotInUseIPs, nonCalicoIPs, inUseButNotAllocatedIPs,
                   numProblems, out>>

\* The workload endpoint listing succeeds.
ListWeps ==
    /\ pc = "listWeps"
    /\ calls' = Append(calls, "weps")
    /\ LET r == LoadWeps(inUseIPs, weps, 0)
       IN  /\ inUseIPs' = r.inUseIPs
           /\ err' = r.err
           /\ IF r.err = NoError
              THEN /\ out' = out \o <<<<"Found workload IPs", r.num>>,
                                      <<"Workloads and nodes are using IPs",
                                        Cardinality(DOMAIN r.inUseIPs)>>>>
                   /\ pc' = "classify"
              ELSE /\ out' = out
                   /\ pc' = "returned"
    /\ UNCHANGED <<datastore, previous, release, allocations, activeIPPools, allocatedButNotInUseIPs,
                   nonCalicoIPs, inUseButNotAllocatedIPs, numProblems, failedList>>

ListWepsFails ==
    /\ pc = "listWeps"
    /\ calls' = Append(calls, "weps")
    /\ failedList' = "weps"
    /\ pc' = "returned"
    /\ err' = ListingError("failed to list workload endpoints")
    /\ UNCHANGED <<datastore, previous, release, allocations, inUseIPs, activeIPPools,
                   allocatedButNotInUseIPs, nonCalicoIPs, inUseButNotAllocatedIPs,
                   numProblems, out>>

\* The block as it is after the allocation of the address ip is released.
ReleaseInBlock(b, ip) ==
    [b EXCEPT !.Allocations =
        [o \in DOMAIN @ |-> IF IPString(OrdinalToIP(b, o - 1)) = ip THEN Nil ELSE @[o]]]

\* The two scans and a summary that also repairs: the leaked addresses are
\* released in their blocks.
ClassifyAndRelease ==
    /\ pc = "classify"
    /\ \E order1 \in Orders(DOMAIN allocations) :
          LET leaked == scanAllocations(inUseIPs, order1, <<>>)
          IN  /\ allocatedButNotInUseIPs' = leaked
              /\ numProblems' = Len(leaked)
              /\ blocks' = [i \in DOMAIN blocks |->
                               IF leaked = <<>> THEN blocks[i]
                               ELSE ReleaseInBlock(blocks[i], leaked[1])]
              /\ calls' = IF leaked = <<>> THEN calls ELSE Append(calls, "release")
    /\ pc' = "returned"
    /\ err' = NoError
    /\ UNCHANGED <<pools, nodes, weps, previous, release, allocations, inUseIPs,
                   activeIPPools, nonCalicoIPs, inUseButNotAllocatedIPs, out,
                   failedList>>

\* The two scans and the summary: the addresses that are allocated but not in
\* use, then those in use but not allocated, each map ranged over in any order.
\* Of the lines that name one address, those of the leaked ones are printed.
Classify ==
    /\ pc = "classify"
    /\ \E order1 \in Orders(DOMAIN allocations) :
       \E order2 \in Orders(DOMAIN inUseIPs) :
       \E range \in Orders(AttrKeysOf(blocks)) :
          LET leaked == scanAllocations(inUseIPs, order1, <<>>)
              acc == scanInUse(allocations, inUseIPs, activeIPPools, order2,
                               [nonCalico |-> <<>>, notAllocated |-> <<>>])
              total == 0 + Len(leaked) + Len(acc.nonCalico) + Len(acc.notAllocated)
          IN  /\ allocatedButNotInUseIPs' = leaked
              /\ nonCalicoIPs' = acc.nonCalico
              /\ inUseButNotAllocatedIPs' = acc.notAllocated
              /\ numProblems' = total
              /\ out' = out \o
                    (IF showProblemIPs
                     THEN leakedLines(blocks, allocations, leaked, range)
                     ELSE <<>>) \o
                    <<<<"Found IPs allocated but not in use", Len(leaked)>>,
                      <<"Found in-use IPs not in active IP pools", Len(acc.nonCalico)>>,
                      <<"Found in-use IPs in active IP pools without allocation",
                        Len(acc.notAllocated)>>,
                      <<"Check complete; found problems", total>>>>
    /\ pc' = "returned"
    /\ err' = NoError
    /\ UNCHANGED <<datastore, previous, release, calls, allocations, inUseIPs,
                   activeIPPools, failedList>>

Next ==
    \/ CreateBlock
    \/ CreatePool
    \/ CreateNode
    \/ CreateWep
    \/ Check
    \/ ListBlocks
    \/ ListBlocksFails
    \/ ListPools
    \/ ListPoolsFails
    \/ ListNodes
    \/ ListNodesFails
    \/ ListWeps
    \/ ListWepsFails
    \/ Classify

Spec == Init /\ [][Next]_vars

----------------------------------------------------------------------------
(* The release command                                                     *)

\* argutils.ValidateIP: the address a well-formed text denotes.
ValidateIP(text) == ParseIP(text)

\* IPAM().ReleaseIPs: the addresses that were assigned are released, and
\* those that were not assigned are returned.
ReleaseIPs(asg, ips) ==
    [unallocated |-> SelectSeq(ips, LAMBDA a : a \notin asg),
     assigned |-> asg \ Range(ips)]

\* The inner loop over the addresses of one node of the report.
RECURSIVE leakedOf(_, _)
leakedOf(allocs, ips) ==
    IF allocs = <<>> THEN ips
    ELSE leakedOf(Tail(allocs),
                  IF ~Head(allocs).InUse THEN Append(ips, ValidateIP(Head(allocs).IP))
                  ELSE ips)

\* The loop over r.Allocations, a Go map ranged over in the given order.
RECURSIVE ipsToRelease(_, _, _)
ipsToRelease(allocs, order, ips) ==
    IF order = <<>> THEN ips
    ELSE ipsToRelease(allocs, Tail(order), leakedOf(allocs[Head(order)], ips))

\* One ReleaseIPs call: the addresses passed and the addresses returned.
Call(ips, unallocated) == [ips |-> ips, unallocated |-> unallocated]

\* What is left by a return that comes before any address is released.
Returned(e, r, asg, lines) ==
    [err |-> e, loaded |-> r, released |-> <<>>, assigned |-> asg, out |-> lines]

\* The tail both sources share: the addresses are chosen and released.
releaseAll(r, asg, relErr, order, lines, noneLine, warnLine, doneLine) ==
    LET ips == ipsToRelease(r.Allocations, order, <<>>)
        rel == ReleaseIPs(asg, ips)
    IN  IF ips = <<>> THEN Returned("", r, asg, Append(lines, noneLine))
        ELSE IF relErr
        THEN [err |-> "ReleaseIPs failed", loaded |-> r,
              released |-> <<Call(ips, <<>>)>>, assigned |-> asg, out |-> lines]
        ELSE [err |-> "", loaded |-> r, released |-> <<Call(ips, rel.unallocated)>>,
              assigned |-> rel.assigned,
              out |-> Append(lines, IF rel.unallocated # <<>> THEN warnLine
                                    ELSE doneLine)]

Unlocked(ci) == ci.DatastoreReady = <<>> \/ ci.DatastoreReady[1]

\* releaseFromReport that lets --force override the cluster GUID check.
releaseFromReportForceGUID(force, reportFile, ver, fs, ci, asg, getErr, relErr, order) ==
    LET file == fs[reportFile]
        r == file.report
    IN  IF ~file.exists THEN Returned("no such file", ZeroReport, asg, <<>>)
        ELSE IF ~file.json THEN Returned("invalid JSON", ZeroReport, asg, <<>>)
        ELSE IF getErr THEN Returned("ClusterInformation not read", r, asg, <<>>)
        ELSE IF ci.ClusterGUID # r.ClusterGUID /\ ~force
        THEN Returned("mismatched cluster GUID", r, asg, <<>>)
        ELSE IF ci.ResourceVersion # r.ClusterInfoRevision
        THEN Returned("report is stale", r, asg, <<>>)
        ELSE IF Unlocked(ci) /\ ~force
        THEN Returned("data store is not locked", r, asg, <<>>)
        ELSE IF ver # r.Version /\ ~force
        THEN Returned("different version", r, asg, <<>>)
        ELSE releaseAll(r, asg, relErr, order, <<>>,
                        "No addresses need to be released.",
                        "Warning: report contained addresses which are no longer allocated",
                        "Released IPs successfully")

\* releaseFromReport that does not compare the revisions.
releaseFromReportAnyRevision(force, reportFile, ver, fs, ci, asg, getErr, relErr, order) ==
    LET file == fs[reportFile]
        r == file.report
    IN  IF ~file.exists THEN Returned("no such file", ZeroReport, asg, <<>>)
        ELSE IF ~file.json THEN Returned("invalid JSON", ZeroReport, asg, <<>>)
        ELSE IF getErr THEN Returned("ClusterInformation not read", r, asg, <<>>)
        ELSE IF ci.ClusterGUID # r.ClusterGUID
        THEN Returned("mismatched cluster GUID", r, asg, <<>>)
        ELSE IF Unlocked(ci) /\ ~force
        THEN Returned("data store is not locked", r, asg, <<>>)
        ELSE IF ver # r.Version /\ ~force
        THEN Returned("different version", r, asg, <<>>)
        ELSE releaseAll(r, asg, relErr, order, <<>>,
                        "No addresses need to be released.",
                        "Warning: report contained addresses which are no longer allocated",
                        "Released IPs successfully")

\* releaseFromReport that takes a data store with DatastoreReady unset as locked.
releaseFromReportUnsetIsLocked(force, reportFile, ver, fs, ci, asg, getErr, relErr, order) ==
    LET file == fs[reportFile]
        r == file.report
    IN  IF ~file.exists THEN Returned("no such file", ZeroReport, asg, <<>>)
        ELSE IF ~file.json THEN Returned("invalid JSON", ZeroReport, asg, <<>>)
        ELSE IF getErr THEN Returned("ClusterInformation not read", r, asg, <<>>)
        ELSE IF ci.ClusterGUID # r.ClusterGUID
        THEN Returned("mismatched cluster GUID", r, asg, <<>>)
        ELSE IF ci.ResourceVersion # r.ClusterInfoRevision
        THEN Returned("report is stale", r, asg, <<>>)
        ELSE IF ci.DatastoreReady # <<>> /\ ci.DatastoreReady[1] /\ ~force
        THEN Returned("data store is not locked", r, asg, <<>>)
        ELSE IF ver # r.Version /\ ~force
        THEN Returned("different version", r, asg, <<>>)
        ELSE releaseAll(r, asg, relErr, order, <<>>,
                        "No addresses need to be released.",
                        "Warning: report contained addresses which are no longer allocated",
                        "Released IPs successfully")

\* releaseFromReport of release.go.  getErr and relErr say whether the read of
\* the ClusterInformation and the ReleaseIPs call fail; order is the order in
\* which r.Allocations is ranged over.
releaseFromReport(force, reportFile, ver, fs, ci, asg, getErr, relErr, order) ==
    LET file == fs[reportFile]
        r == file.report
        warn1 == IF Unlocked(ci)
                 THEN <<"WARNING: Data store is not locked. Ignoring due to --force option">>
                 ELSE <<>>
        warn2 == IF ver # r.Version
                 THEN <<"WARNING: Report was produced using a different version of calicoctl. Ignoring due to --force option">>
                 ELSE <<>>
    IN  IF ~file.exists THEN Returned("no such file", ZeroReport, asg, <<>>)
        ELSE IF ~file.json THEN Returned("invalid JSON", ZeroReport, asg, <<>>)
        ELSE IF getErr THEN Returned("ClusterInformation not read", r, asg, <<>>)
        ELSE IF ci.ClusterGUID # r.ClusterGUID
        THEN Returned("mismatched cluster GUID", r, asg, <<>>)
        ELSE IF ci.ResourceVersion # r.ClusterInfoRevision
        THEN Returned("report is stale", r, asg, <<>>)
        ELSE IF Unlocked(ci) /\ ~force
        THEN Returned("data store is not locked", r, asg, <<>>)
        ELSE IF ver # r.Version /\ ~force
        THEN Returned("different version", r, asg, warn1)
        ELSE releaseAll(r, asg, relErr, order, warn1 \o warn2,
                        "No addresses need to be released.",
                        "Warning: report contained addresses which are no longer allocated",
                        "Released IPs successfully")

\* releaseFromReport of part_001: the file read is always report.json, a
\* file that is not JSON leaves Report{}, and neither the lock of the data
\* store nor the version is looked at.
releaseFromReportUnnamed(reportFile, fs, ci, asg, getErr, relErr, order) ==
    LET file == fs[ReportJSON]
        r == IF file.json THEN file.report ELSE ZeroReport
    IN  IF ~file.exists THEN Returned("no such file", ZeroReport, asg, <<>>)
        ELSE IF getErr THEN Returned("ClusterInformation not read", r, asg, <<>>)
        ELSE IF ci.ClusterGUID # r.ClusterGUID
        THEN Returned("mismatched cluster GUID", r, asg, <<>>)
        ELSE IF ci.ResourceVersion # r.ClusterInfoRevision
        THEN Returned("report is stale", r, asg, <<>>)
        ELSE releaseAll(r, asg, relErr, order, <<>>,
                        "No addresses to release",
                        "Warning: some leaked addresses were not actually allocated",
                        "Released all IPs successfully")

\* The --ip branch that returns nil for an address that was not assigned.
releaseIPQuiet(passedIP, asg, relErr) ==
    LET ip == ValidateIP(passedIP)
        rel == ReleaseIPs(asg, <<ip>>)
    IN  IF relErr
        THEN [err |-> "Error: ReleaseIPs failed", loaded |-> ZeroReport,
              released |-> <<Call(<<ip>>, <<>>)>>, assigned |-> asg, out |-> <<>>]
        ELSE [err |-> "", loaded |-> ZeroReport,
              released |-> <<Call(<<ip>>, rel.unallocated)>>,
              assigned |-> rel.assigned,
              out |-> IF rel.unallocated # <<>> THEN <<>>
                      ELSE <<"Successfully released IP address">>]

\* The --ip branch of Release, the same in both sources.
releaseIP(passedIP, asg, relErr) ==
    LET ip == ValidateIP(passedIP)
        rel == ReleaseIPs(asg, <<ip>>)
    IN  IF relErr
        THEN [err |-> "Error: ReleaseIPs failed", loaded |-> ZeroReport,
              released |-> <<Call(<<ip>>, <<>>)>>, assigned |-> asg, out |-> <<>>]
        ELSE IF rel.unallocated # <<>>
        THEN [err |-> "IP address is not assigned", loaded |-> ZeroReport,
              released |-> <<Call(<<ip>>, rel.unallocated)>>,
              assigned |-> rel.assigned, out |-> <<>>]
        ELSE [err |-> "", loaded |-> ZeroReport,
              released |-> <<Call(<<ip>>, rel.unallocated)>>,
              assigned |-> rel.assigned, out |-> <<"Successfully released IP address">>]

\* Release of release.go.  clientErr says whether the configuration or the
\* client cannot be made.
Release ==
    /\ rpc = "start"
    /\ build = "release.go"
    /\ \E clientErr, getErr, relErr \in BOOLEAN :
       \E order \in Orders(IF args.fromReport # <<>>
                           THEN DOMAIN files[args.fromReport[1]].report.Allocations
                           ELSE {}) :
          LET res ==
                IF clientErr THEN Returned("no client", ZeroReport, assigned, <<>>)
                ELSE IF args.fromReport # <<>>
                THEN LET r == releaseFromReport(
                                  args.force, args.fromReport[1], version, files,
                                  clusterInfo, assigned, getErr, relErr, order)
                     IN  IF r.err # "" THEN r
                         ELSE [r EXCEPT !.out =
                                  Append(@, "You may now unlock the data store.")]
                ELSE IF args.ip # <<>>
                THEN releaseIP(args.ip[1], assigned, relErr)
                ELSE Returned("", ZeroReport, assigned, <<>>)
          IN  /\ rerr' = res.err
              /\ loaded' = res.loaded
              /\ released' = res.released
              /\ assigned' = res.assigned
              /\ rout' = res.out
    /\ rpc' = "done"
    /\ UNCHANGED <<datastore, pc, checker, calls, previous, build, args, version,
                   files, clusterInfo>>

\* Release of part_001, whose usage has no --force: docopt refuses it.
ReleaseUnnamed ==
    /\ rpc = "start"
    /\ build = "part_001"
    /\ \E clientErr, getErr, relErr \in BOOLEAN :
       \E order \in Orders(DOMAIN files[ReportJSON].report.Allocations) :
          LET res ==
                IF args.force THEN Returned("Invalid option", ZeroReport, assigned, <<>>)
                ELSE IF clientErr THEN Returned("no client", ZeroReport, assigned, <<>>)
                ELSE IF args.fromReport # <<>>
                THEN releaseFromReportUnnamed(args.fromReport[1], files, clusterInfo,
                                              assigned, getErr, relErr, order)
                ELSE IF args.ip # <<>>
                THEN releaseIP(args.ip[1], assigned, relErr)
                ELSE Returned("", ZeroReport, assigned, <<>>)
          IN  /\ rerr' = res.err
              /\ loaded' = res.loaded
              /\ released' = res.released
              /\ assigned' = res.assigned
              /\ rout' = res.out
    /\ rpc' = "done"
    /\ UNCHANGED <<datastore, pc, checker, calls, previous, build, args, version,
                   files, clusterInfo>>

\* The release command is given once, in a cluster that holds report files.
InitRelease ==
    /\ CheckIdle
    /\ build \in Builds
    /\ args \in ArgSet
    /\ version = Version
    /\ files \in [Paths -> FileSet]
    /\ clusterInfo \in ClusterInfoSet
    /\ assigned \in SUBSET {ValidateIP(IPString(1)), ValidateIP(IPString(2))}
    /\ rpc = "start"
    /\ rerr = ""
    /\ released = <<>>
    /\ loaded = ZeroReport
    /\ rout = <<>>

NextRelease ==
    \/ Release
    \/ ReleaseUnnamed

SpecRelease == InitRelease /\ [][NextRelease]_vars

----------------------------------------------------------------------------
(* The check is run again on the same datastore                            *)

\* What a run that returned nil has reported: the counts it printed and the
\* attribute string of every leaked allocation.
RunSummary ==
    [allocations |-> Cardinality(DOMAIN allocations),
     inUseIPs |-> Cardinality(DOMAIN inUseIPs),
     leaked |-> Len(allocatedButNotInUseIPs),
     nonCalico |-> Len(nonCalicoIPs),
     notAllocated |-> Len(inUseButNotAllocatedIPs),
     numProblems |-> numProblems,
     counts |-> SelectSeq(out, LAMBDA l : Len(l) = 2),
     attrs |-> {<<l[2], l[3]>> : l \in {m \in Range(out) : m[1] = "leaked"}}]

\* Check is called a second time after a run that returned nil: a new
\* IPAMChecker, and checkIPAM starts with its locals unset.
CheckAgain ==
    /\ pc = "returned"
    /\ err = NoError
    /\ previous = <<>>
    /\ previous' = <<RunSummary>>
    /\ pc' = "listBlocks"
    /\ calls' = <<>>
    /\ allocations' = EmptyMap
    /\ inUseIPs' = EmptyMap
    /\ activeIPPools' = <<>>
    /\ allocatedButNotInUseIPs' = <<>>
    /\ nonCalicoIPs' = <<>>
    /\ inUseButNotAllocatedIPs' = <<>>
    /\ numProblems' = 0
    /\ out' = <<>>
    /\ UNCHANGED <<datastore, release, err, failedList>>

NextTwice ==
    \/ Next
    \/ CheckAgain

SpecTwice == Init /\ [][NextTwice]_vars

----------------------------------------------------------------------------
(* What the claims speak of                                                *)

Count(s, x) == Cardinality({i \in DOMAIN s : s[i] = x})

\* checkIPAM has returned nil.
Completed == pc = "returned" /\ err = NoError

\* Every address that is a key of an index or a member of a result list.
AllKeys ==
    DOMAIN allocations \cup DOMAIN inUseIPs \cup Range(allocatedButNotInUseIPs)
    \cup Range(nonCalicoIPs) \cup Range(inUseButNotAllocatedIPs)

\* The allocated ordinals of the datastore, as <<block, ordinal>>.
AllocatedOrdinals ==
    {x \in UNION {{<<i, o>> : o \in 0..(Len(blocks[i].Allocations) - 1)} :
                     i \in DOMAIN blocks} :
        blocks[x[1]].Allocations[x[2] + 1] # Nil}
OrdinalAddr(x) == IPString(blocks[x[1]].CIDR.base + x[2])
IsReservedOrdinal(x) ==
    LET b == blocks[x[1]]
        idx == b.Allocations[x[2] + 1]
    IN  /\ idx < Len(b.Attributes)
        /\ idx >= 0
        /\ b.Attributes[idx + 1].AttrPrimary = <<WindowsReservedHandle>>

\* The address texts the nodes and the workload endpoints carry.
NodeTexts(n) ==
    ({n.IPv4VXLANTunnelAddr}
     \cup {n.Wireguard[i].InterfaceIPv4Address : i \in DOMAIN n.Wireguard}
     \cup {n.BGP[i].IPv4IPIPTunnelAddr : i \in DOMAIN n.BGP}) \ {Empty}
WepTexts(w) == Range(w.IPNetworks)
ReportedTexts ==
    UNION {NodeTexts(nodes[i]) : i \in DOMAIN nodes}
    \cup UNION {WepTexts(weps[i]) : i \in DOMAIN weps}

\* The address lies in the pool the datastore holds at place i.
InPool(i, ip) ==
    /\ ParseCIDR(pools[i].CIDR).ok
    /\ Contains(ParseCIDR(pools[i].CIDR).net, ParseIP(ip))
InEnabledPool(ip) == \E i \in DOMAIN pools : ~pools[i].Disabled /\ InPool(i, ip)
InDisabledPool(ip) == \E i \in DOMAIN pools : pools[i].Disabled /\ InPool(i, ip)

LeakedIff ==
    \A ip \in AllKeys :
        ip \in Range(allocatedButNotInUseIPs)
            <=> (ip \in DOMAIN allocations /\ ip \notin DOMAIN inUseIPs)

----------------------------------------------------------------------------
(* C1 *)

\* C1 as stated: after a completed run an address is counted as leaked iff it
\* is a key of the allocation index and not of the in-use index; and with one
\* allocated ordinal and no node or workload address, exactly that address is
\* leaked and the problem count is 1.
C1_AsStated ==
    Completed =>
        /\ LeakedIff
        /\ \A x \in AllocatedOrdinals :
              (AllocatedOrdinals = {x} /\ ReportedTexts = {})
                  => /\ allocatedButNotInUseIPs = <<OrdinalAddr(x)>>
                     /\ numProblems = 1

\* C1 (amended): after a completed run an address is counted as leaked iff it
\* is a key of the allocation index and not of the in-use index; and with one
\* allocated ordinal whose attribute is not the reserved marker and no node or
\* workload address, exactly that address is leaked and the problem count is 1.
C1_LeakedIffAllocatedNotInUse ==
    Completed =>
        /\ LeakedIff
        /\ \A x \in AllocatedOrdinals :
              (AllocatedOrdinals = {x} /\ ~IsReservedOrdinal(x) /\ ReportedTexts = {})
                  => /\ allocatedButNotInUseIPs = <<OrdinalAddr(x)>>
                     /\ numProblems = 1

C1_Witness ==
    /\ Completed
    /\ \E x \in AllocatedOrdinals :
          /\ AllocatedOrdinals = {x}
          /\ ~IsReservedOrdinal(x)
          /\ ReportedTexts = {}
          /\ allocatedButNotInUseIPs = <<OrdinalAddr(x)>>

----------------------------------------------------------------------------
(* C2 *)

\* C2: after a completed run an address is counted as missing-allocation iff
\* it is a key of the in-use index, not a key of the allocation index, and
\* inside at least one enabled pool.
C2_MissingIffInUseUnallocatedInPool ==
    Completed =>
        \A ip \in AllKeys :
            ip \in Range(inUseButNotAllocatedIPs)
                <=> /\ ip \in DOMAIN inUseIPs
                    /\ ip \notin DOMAIN allocations
                    /\ InEnabledPool(ip)

C2_Witness ==
    /\ Completed
    /\ \E i \in DOMAIN nodes : \E t \in NodeTexts(nodes[i]) :
          /\ normaliseIP(t).ip \in Range(inUseButNotAllocatedIPs)
          /\ InEnabledPool(normaliseIP(t).ip)

----------------------------------------------------------------------------
(* C3 *)

\* C3: after a completed run an address is counted as foreign iff it is a key
\* of the in-use index, not a key of the allocation index, and inside no
\* enabled pool; a foreign address is never counted as missing-allocation.
C3_ForeignIffInUseUnallocatedOutsidePools ==
    Completed =>
        \A ip \in AllKeys :
            /\ ip \in Range(nonCalicoIPs)
                  <=> /\ ip \in DOMAIN inUseIPs
                      /\ ip \notin DOMAIN allocations
                      /\ ~InEnabledPool(ip)
            /\ ip \in Range(nonCalicoIPs) => ip \notin Range(inUseButNotAllocatedIPs)

C3_Witness ==
    /\ Completed
    /\ \E i \in DOMAIN pools : ~pools[i].Disabled
    /\ \E i \in DOMAIN weps : \E t \in WepTexts(weps[i]) :
          normaliseIP(t).ip \in Range(nonCalicoIPs)

----------------------------------------------------------------------------
(* C4 *)

SummaryLines == {i \in DOMAIN out : out[i][1] = "Check complete; found problems"}

\* C4: the total numProblems is the number of leaked plus foreign plus
\* missing-allocation addresses; the number of owners of an address does not
\* enter the total, which is the number of addresses keyed in exactly one
\* index; and the empty datastore gives the total 0.
C4_TotalIsSumOfThree ==
    Completed =>
        /\ numProblems = Len(allocatedButNotInUseIPs) + Len(nonCalicoIPs)
                         + Len(inUseButNotAllocatedIPs)
        /\ numProblems = Cardinality(DOMAIN allocations \ DOMAIN inUseIPs)
                         + Cardinality(DOMAIN inUseIPs \ DOMAIN allocations)
        /\ \A i \in SummaryLines : out[i][2] = numProblems
        /\ (blocks = <<>> /\ pools = <<>> /\ nodes = <<>> /\ weps = <<>>)
              => numProblems = 0

C4_Witness ==
    /\ Completed
    /\ \E ip \in DOMAIN inUseIPs :
          /\ Len(inUseIPs[ip]) > 1
          /\ ip \notin DOMAIN allocations
    /\ numProblems = 1

----------------------------------------------------------------------------
(* C5 *)

TimesCounted(ip) ==
    Count(allocatedButNotInUseIPs, ip) + Count(nonCalicoIPs, ip)
    + Count(inUseButNotAllocatedIPs, ip)

\* C5: no address is counted more than once in the problem total: it is in at
\* most one of the leaked, foreign and missing-allocation lists, at most once,
\* and the total is the number of addresses so listed.
C5_NoAddressCountedTwice ==
    Completed =>
        /\ \A ip \in AllKeys : TimesCounted(ip) <= 1
        /\ numProblems = Cardinality({ip \in AllKeys : TimesCounted(ip) >= 1})

C5_Witness ==
    /\ Completed
    /\ allocatedButNotInUseIPs # <<>>
    /\ \E ip \in Range(nonCalicoIPs) : Len(inUseIPs[ip]) > 1

----------------------------------------------------------------------------
(* C6 *)

InUseUnallocated == DOMAIN inUseIPs \ DOMAIN allocations

\* C6 as stated: every in-use address without an allocation that lies inside
\* a disabled pool is classified foreign and never missing-allocation,
\* whatever other pools are loaded.
C6_AsStated ==
    Completed =>
        \A ip \in InUseUnallocated :
            InDisabledPool(ip)
                => /\ ip \in Range(nonCalicoIPs)
                   /\ ip \notin Range(inUseButNotAllocatedIPs)

\* C6 (amended): every in-use address without an allocation that lies inside
\* a disabled pool and inside no enabled pool is classified foreign and never
\* missing-allocation.
C6_DisabledPoolOnlyIsForeign ==
    Completed =>
        \A ip \in InUseUnallocated :
            (InDisabledPool(ip) /\ ~InEnabledPool(ip))
                => /\ ip \in Range(nonCalicoIPs)
                   /\ ip \notin Range(inUseButNotAllocatedIPs)

C6_Witness ==
    /\ Completed
    /\ \E i \in DOMAIN pools : ~pools[i].Disabled
    /\ \E ip \in InUseUnallocated :
          /\ InDisabledPool(ip)
          /\ ~InEnabledPool(ip)
          /\ ip \in Range(nonCalicoIPs)

----------------------------------------------------------------------------
(* C7 *)

BlocksLoaded ==
    pc \notin {"idle", "listBlocks", "panicked"} /\ failedList # "blocks"

\* C7: once the blocks are loaded, the address of every allocation whose
\* attribute is the reserved marker is a key of the in-use index, owned by
\* "Reserved for Windows", and a completed run does not count it as leaked.
C7_ReservedIsInUseNotLeaked ==
    BlocksLoaded =>
        \A x \in AllocatedOrdinals :
            IsReservedOrdinal(x)
                => /\ OrdinalAddr(x) \in DOMAIN inUseIPs
                   /\ \E i \in DOMAIN inUseIPs[OrdinalAddr(x)] :
                         inUseIPs[OrdinalAddr(x)][i].FriendlyName = "Reserved for Windows"
                   /\ OrdinalAddr(x) \notin Range(allocatedButNotInUseIPs)

C7_Witness ==
    /\ Completed
    /\ ReportedTexts = {}
    /\ \E x \in AllocatedOrdinals :
          /\ IsReservedOrdinal(x)
          /\ OrdinalAddr(x) \in DOMAIN allocations
          /\ OrdinalAddr(x) \notin Range(allocatedButNotInUseIPs)

----------------------------------------------------------------------------
(* C8 *)

\* The texts that denote the host a: bare, or with any prefix length.
TextForms(a) == {IPString(a)} \cup {CIDRText(a, l) : l \in PrefixLens}

OwnersOf(ip) == {inUseIPs[ip][i].Resource : i \in DOMAIN inUseIPs[ip]}

\* C8: after a completed run, an address that is allocated in a block and
\* reported by a node or a workload endpoint as a bare address or as a CIDR
\* of the same host is keyed once: the allocation and the owner are under the
\* same canonical key, and the address is counted in none of the three lists.
C8_EquivalentFormsJoin ==
    Completed =>
        \A x \in AllocatedOrdinals :
            LET a == blocks[x[1]].CIDR.base + x[2]
                key == IPString(a)
            IN  /\ \A i \in DOMAIN nodes :
                      NodeTexts(nodes[i]) \cap TextForms(a) # {}
                          => /\ key \in DOMAIN allocations \cap DOMAIN inUseIPs
                             /\ <<"Node", nodes[i].Name>> \in OwnersOf(key)
                             /\ TimesCounted(key) = 0
                /\ \A i \in DOMAIN weps :
                      WepTexts(weps[i]) \cap TextForms(a) # {}
                          => /\ key \in DOMAIN allocations \cap DOMAIN inUseIPs
                             /\ <<"Workload", WepOwner(weps[i])>> \in OwnersOf(key)
                             /\ TimesCounted(key) = 0

C8_Witness ==
    /\ Completed
    /\ \E x \in AllocatedOrdinals : \E i \in DOMAIN weps :
          /\ ~IsReservedOrdinal(x)
          /\ CIDRText(blocks[x[1]].CIDR.base + x[2], 1) \in WepTexts(weps[i])
          /\ Mask(blocks[x[1]].CIDR.base + x[2], 1) # blocks[x[1]].CIDR.base + x[2]
          /\ TimesCounted(OrdinalAddr(x)) = 0

----------------------------------------------------------------------------
(* C9 *)

ListingFailureMsg(l) ==
    CASE l = "blocks" -> "failed to list IPAM blocks"
      [] l = "pools" -> "failed to load IP pools"
      [] l = "nodes" -> "failed to list nodes"
      [] l = "weps" -> "failed to list workload endpoints"

NotClassified ==
    /\ allocatedButNotInUseIPs = <<>>
    /\ nonCalicoIPs = <<>>
    /\ inUseButNotAllocatedIPs = <<>>
    /\ numProblems = 0

HasLine(tag) == \E i \in DOMAIN out : out[i][1] = tag

\* C9: when a listing call fails, checkIPAM has returned the error that names
\* that listing, nothing is classified and no summary is printed; a summary
\* is printed only by a run whose four listings all succeeded.
C9_ListingFailureAborts ==
    /\ failedList # ""
          => /\ pc = "returned"
             /\ err = ListingError(ListingFailureMsg(failedList))
             /\ NotClassified
             /\ SummaryLines = {}
    /\ SummaryLines # {}
          => /\ failedList = ""
             /\ Completed
             /\ HasLine("Found IPAM blocks")
             /\ HasLine("Found active IP pools")
             /\ HasLine("Found node tunnel IPs")
             /\ HasLine("Found workload IPs")

C9_Witness ==
    /\ pc = "returned"
    /\ failedList = "nodes"
    /\ DOMAIN allocations # {}
    /\ activeIPPools # <<>>

----------------------------------------------------------------------------
(* C10 *)

WellFormed(t) == \E a \in Addrs : t \in TextForms(a)

\* The errors that name a malformed address of node n or of endpoint w.
NodeAddressErrors(n) ==
    {ParseError("failed to parse IPv4VXLANTunnelAddr", t, n.Name) :
        t \in {u \in {n.IPv4VXLANTunnelAddr} : u # Empty /\ ~WellFormed(u)}}
    \cup
    {ParseError("failed to parse Wireguard.InterfaceIPv4Address", t, n.Name) :
        t \in {u \in {n.Wireguard[i].InterfaceIPv4Address : i \in DOMAIN n.Wireguard} :
                  u # Empty /\ ~WellFormed(u)}}
    \cup
    {ParseError("failed to parse IPv4IPIPTunnelAddr", t, n.Name) :
        t \in {u \in {n.BGP[i].IPv4IPIPTunnelAddr : i \in DOMAIN n.BGP} :
                  u # Empty /\ ~WellFormed(u)}}
WepAddressErrors(w) ==
    {ParseError("failed to parse IP", t, WepOwner(w)) :
        t \in {u \in WepTexts(w) : ~WellFormed(u)}}
AddressErrors ==
    UNION {NodeAddressErrors(nodes[i]) : i \in DOMAIN nodes}
    \cup UNION {WepAddressErrors(weps[i]) : i \in DOMAIN weps}

\* C10: when an address of a node or of a workload endpoint cannot be
\* normalised, no run classifies or prints a summary; a run that has returned
\* has returned an error, and unless a listing or a pool CIDR failed first,
\* the error names the owner and the raw text of a malformed address.
C10_MalformedAddressAborts ==
    /\ (pc = "classify" \/ ~NotClassified \/ SummaryLines # {})
          => AddressErrors = {}
    /\ (pc = "returned" /\ AddressErrors # {})
          => /\ err # NoError
             /\ (failedList = "" /\ err.msg # "failed to parse IP pool CIDR")
                   => err \in AddressErrors

C10_Witness ==
    /\ pc = "returned"
    /\ DOMAIN inUseIPs # {}
    /\ \E i \in DOMAIN weps : err \in WepAddressErrors(weps[i])

----------------------------------------------------------------------------
(* C11 *)

\* Every owner the in-use index holds.
Owners == UNION {OwnersOf(ip) : ip \in DOMAIN inUseIPs}

NodeOwner(i) == <<"Node", nodes[i].Name>>
WorkloadOwner(i) == <<"Workload", WepOwner(weps[i])>>

\* The owner is recorded under every well-formed address it carries.
NodeProcessed(i) ==
    \A t \in NodeTexts(nodes[i]) :
        WellFormed(t) =>
            /\ normaliseIP(t).ip \in DOMAIN inUseIPs
            /\ NodeOwner(i) \in OwnersOf(normaliseIP(t).ip)
WepProcessed(i) ==
    \A t \in WepTexts(weps[i]) :
        WellFormed(t) =>
            /\ normaliseIP(t).ip \in DOMAIN inUseIPs
            /\ WorkloadOwner(i) \in OwnersOf(normaliseIP(t).ip)

\* The run has returned the error of an address that cannot be normalised.
FailedOnAddress == pc = "returned" /\ err \in AddressErrors

\* C11 as stated: a malformed address on one node or workload endpoint does
\* not abort the run: when the run returns the error tied to that resource,
\* every other resource has been processed, its well-formed addresses recorded
\* in the in-use index.
C11_AsStated ==
    FailedOnAddress =>
        /\ \A i \in DOMAIN nodes :
              err \notin NodeAddressErrors(nodes[i]) => NodeProcessed(i)
        /\ \A i \in DOMAIN weps :
              err \notin WepAddressErrors(weps[i]) => WepProcessed(i)

\* C11 (amended): a malformed address on one node or workload endpoint aborts
\* the run at that resource: the error returned is tied to that resource, the
\* resources listed before it have been processed, no resource after it is
\* recorded, no later listing is issued, and nothing is classified.
C11_MalformedAddressStopsAtResource ==
    FailedOnAddress =>
        /\ NotClassified
        /\ SummaryLines = {}
        /\ \A i \in DOMAIN nodes :
              err \in NodeAddressErrors(nodes[i]) =>
                  /\ err.owner = nodes[i].Name
                  /\ \A j \in DOMAIN nodes : j < i => NodeProcessed(j)
                  /\ \A j \in DOMAIN nodes : j >= i => NodeOwner(j) \notin Owners
                  /\ \A j \in DOMAIN weps : WorkloadOwner(j) \notin Owners
                  /\ "weps" \notin Range(calls)
        /\ \A i \in DOMAIN weps :
              err \in WepAddressErrors(weps[i]) =>
                  /\ err.owner = WepOwner(weps[i])
                  /\ \A j \in DOMAIN nodes : NodeProcessed(j)
                  /\ \A j \in DOMAIN weps : j < i => WepProcessed(j)
                  /\ \A j \in DOMAIN weps : j >= i => WorkloadOwner(j) \notin Owners

C11_Witness ==
    /\ FailedOnAddress
    /\ \E i, j \in DOMAIN nodes :
          /\ i < j
          /\ err \in NodeAddressErrors(nodes[i])
          /\ \E t \in NodeTexts(nodes[j]) : WellFormed(t)
          /\ NodeOwner(j) \notin Owners

----------------------------------------------------------------------------
(* C12 *)

\* C12: when the check is run twice on the same blocks, pools, nodes and
\* workload endpoints and both runs return nil, the second run reports what
\* the first reported: the same number of allocations, in-use addresses,
\* leaked, foreign and missing-allocation addresses, the same numProblems, the
\* same count lines and the same attribute strings.
C12_SecondRunReportsTheSame ==
    (previous # <<>> /\ Completed) => RunSummary = previous[1]

C12_Witness ==
    /\ previous # <<>>
    /\ Completed
    /\ previous[1].numProblems = MaxItems
    /\ previous[1].nonCalico + previous[1].notAllocated > 1
    /\ \E x \in previous[1].attrs : x[2] = formatAttrs(NormalAttr, SortedKeys)
    /\ RunSummary = previous[1]

----------------------------------------------------------------------------
(* C13 *)

Listings == {"blocks", "pools", "nodes", "weps"}

\* C13: checkIPAM does not change the datastore: in every run, whether it
\* returns nil, returns an error or panics, the only datastore calls it issues
\* are the four listings, and no step of it changes the blocks, the pools, the
\* nodes or the workload endpoints.
C13_CheckDoesNotMutate ==
    /\ [](Range(calls) \subseteq Listings)
    /\ [][pc # "idle" => UNCHANGED datastore]_vars

C13_Witness ==
    /\ Completed
    /\ Range(calls) = Listings
    /\ allocatedButNotInUseIPs # <<>>
    /\ nonCalicoIPs # <<>>

----------------------------------------------------------------------------
(* C14 *)

\* Release has returned from a run that was given --from-report.
FromReportDone == rpc = "done" /\ args.fromReport # <<>>

\* The addresses the report marks as not in use.
LeakedInReport(r) ==
    {ValidateIP(e.IP) :
        e \in {x \in UNION {Range(r.Allocations[k]) : k \in DOMAIN r.Allocations} :
                  ~x.InUse}}

\* C14: when the cluster GUID of the report that releaseFromReport has loaded
\* differs from the cluster GUID of the cluster, no ReleaseIPs call is issued
\* and an error is returned, with --force as without it.
C14_GUIDMismatchReleasesNothing ==
    (FromReportDone /\ loaded.ClusterGUID # clusterInfo.ClusterGUID) =>
        /\ released = <<>>
        /\ rerr # ""

C14_Witness ==
    /\ FromReportDone
    /\ build = "release.go"
    /\ args.force
    /\ loaded \in ReportSet
    /\ loaded.ClusterGUID # clusterInfo.ClusterGUID
    /\ loaded.ClusterInfoRevision = clusterInfo.ResourceVersion
    /\ LeakedInReport(loaded) \cap assigned # {}
    /\ rerr = "mismatched cluster GUID"
    /\ released = <<>>

----------------------------------------------------------------------------
(* C15 *)

\* Release has returned from a run that was given --ip and no report.
IPDone == rpc = "done" /\ args.fromReport = <<>> /\ args.ip # <<>>

\* C15 as stated: when --ip names an address that ReleaseIPs hands back as not
\* allocated, Release returns no error.
C15_AsStated ==
    (IPDone /\ released # <<>> /\ released[1].unallocated # <<>>) => rerr = ""

----------------------------------------------------------------------------
(* C16 *)

\* The file that --from-report names.
NamedFile == files[args.fromReport[1]]

\* C16 as stated: with --from-report=<REPORT>, the report that is loaded,
\* compared with the cluster and used to choose the addresses to release is
\* the content of the file <REPORT> names: a report in memory is that file's,
\* a file that does not exist gives an error, and the addresses passed to
\* ReleaseIPs are those the named file marks as not in use, its GUID and
\* revision being those of the cluster.
C16_AsStated ==
    FromReportDone =>
        /\ loaded # ZeroReport =>
              /\ NamedFile.exists
              /\ NamedFile.json
              /\ loaded = NamedFile.report
        /\ ~NamedFile.exists => (rerr # "" /\ released = <<>>)
        /\ released # <<>> =>
              /\ NamedFile.json
              /\ Range(released[1].ips) = LeakedInReport(NamedFile.report)
              /\ NamedFile.report.ClusterGUID = clusterInfo.ClusterGUID
              /\ NamedFile.report.ClusterInfoRevision = clusterInfo.ResourceVersion

----------------------------------------------------------------------------
(* C17 *)

AttrIdx(x) == blocks[x[1]].Allocations[x[2] + 1]

\* The attribute index of the allocated ordinal is not an index of the table.
OutOfRange(x) == AttrIdx(x) < 0 \/ AttrIdx(x) >= Len(blocks[x[1]].Attributes)

\* The ordinal is recorded, its attributes print as "<missing>", and the block
\* does not own its address in the in-use index.
RecordedAsMissing(x) ==
    /\ OrdinalAddr(x) \in DOMAIN allocations
    /\ \E i \in DOMAIN allocations[OrdinalAddr(x)] :
          LET a == allocations[OrdinalAddr(x)][i]
          IN  /\ a = [Block |-> blocks[x[1]].CIDR, Ordinal |-> x[2]]
              /\ GetAttrString(blocks, a, SortedKeys) = "<missing>"
    /\ OrdinalAddr(x) \in DOMAIN inUseIPs =>
          <<"Block", blocks[x[1]].CIDR>> \notin OwnersOf(OrdinalAddr(x))

\* C17 as stated: an allocated ordinal whose attribute index is out of range
\* of the attribute table of its block does not make the scan fail: the run
\* does not stop in the block scan, and once the blocks are loaded the
\* allocation is in the allocation index, its attribute string is "<missing>"
\* and it is not registered as in use.
C17_AsStated ==
    /\ (\E x \in AllocatedOrdinals : OutOfRange(x)) => pc # "panicked"
    /\ BlocksLoaded => \A x \in AllocatedOrdinals : OutOfRange(x) => RecordedAsMissing(x)

----------------------------------------------------------------------------
(* C18 *)

ListingOrder == <<"blocks", "pools", "nodes", "weps">>
IsPrefix(s, t) == Len(s) <= Len(t) /\ \A i \in DOMAIN s : s[i] = t[i]
Issued(l) == l \in Range(calls)

\* The scans have started: the run is at the classification or has printed
\* one of its lines.
Classifying ==
    \/ pc = "classify"
    \/ HasLine("leaked")
    \/ HasLine("Found IPs allocated but not in use")
    \/ HasLine("Found in-use IPs not in active IP pools")
    \/ SummaryLines # {}
    \/ ~NotClassified

\* C18: in a run of checkIPAM each listing is issued at most once and in the
\* order blocks, pools, nodes, workload endpoints; a listing is issued only
\* when the phase before it has succeeded, processed all its records and
\* printed its count; and the classification starts only after the four
\* phases are done.
C18_ListingsInSequence ==
    /\ IsPrefix(calls, ListingOrder)
    /\ Issued("pools") =>
          /\ failedList # "blocks"
          /\ HasLine("IPAM blocks record allocations")
          /\ \A x \in AllocatedOrdinals : OrdinalAddr(x) \in DOMAIN allocations
    /\ Issued("nodes") =>
          /\ failedList # "pools"
          /\ HasLine("Found active IP pools")
          /\ \A i \in DOMAIN pools :
                ~pools[i].Disabled => ParseCIDR(pools[i].CIDR).net \in Range(activeIPPools)
    /\ Issued("weps") =>
          /\ failedList # "nodes"
          /\ HasLine("Found node tunnel IPs")
          /\ \A i \in DOMAIN nodes : NodeProcessed(i)
    /\ Classifying =>
          /\ calls = ListingOrder
          /\ failedList = ""
          /\ HasLine("Found workload IPs")
          /\ \A i \in DOMAIN weps : WepProcessed(i)

C18_Witness ==
    /\ Completed
    /\ calls = ListingOrder
    /\ blocks # <<>>
    /\ \E i \in DOMAIN pools : ~pools[i].Disabled
    /\ nodes # <<>>

----------------------------------------------------------------------------
(* C19 *)

\* C19: when the revision of the report that releaseFromReport has loaded
\* differs from the resource version of the cluster's ClusterInformation, no
\* ReleaseIPs call is issued and an error is returned, with --force as
\* without it.
C19_StaleReportReleasesNothing ==
    (FromReportDone /\ loaded.ClusterInfoRevision # clusterInfo.ResourceVersion) =>
        /\ released = <<>>
        /\ rerr # ""

C19_Witness ==
    /\ FromReportDone
    /\ build = "release.go"
    /\ args.force
    /\ loaded \in ReportSet
    /\ loaded.ClusterGUID = clusterInfo.ClusterGUID
    /\ loaded.ClusterInfoRevision # clusterInfo.ResourceVersion
    /\ clusterInfo.DatastoreReady = <<FALSE>>
    /\ LeakedInReport(loaded) \cap assigned # {}
    /\ rerr = "report is stale"
    /\ released = <<>>

----------------------------------------------------------------------------
(* C20 *)

====
